---- MODULE Spec2Model ----
(***************************************************************************)
(* Model of crates/turbo-tasks-fetch/src/lib.rs: the memoized `fetch`      *)
(* task, the classification of reqwest errors into FetchErrorKind, the     *)
(* FetchIssue built from a FetchError, and HttpResponseBody::to_string.    *)
(*                                                                         *)
(* Option<T> is modelled as a sequence of length 0 (None) or 1 (Some).     *)
(* Result<T, E> is a record with tag "Ok" / "Err".                         *)
(* Strings are TLA+ strings; byte vectors are sequences of 0..255.         *)
(***************************************************************************)
EXTENDS Integers, Sequences, FiniteSets, TLC

\* ------------------------------------------------------------------ bounds
NumCallers == 2
MaxClassified == 2

\* ------------------------------------------------------------ value domain
None == <<>>
Some(x) == <<x>>

\* URLs handed to fetch; the second one does not parse as a URL.
MalformedUrls == {"::bad"}
Urls == {"http://a.test/x"} \cup MalformedUrls

\* user_agent: Option<String>
UserAgents == {None, Some("curl")}

\* The memoization key of the task function: its argument tuple.
Keys == Urls \X UserAgents

\* Status codes a response can carry (http::StatusCode admits 100..=999).
StatusCodes == {101, 200, 404, 599, 600}

\* Display texts of transport errors.
Texts == {"error sending request", "operation timed out"}

\* Response bodies: "hi", U+00E9 (two bytes), and 0xC3 followed by a byte
\* that is not a continuation byte.
Bodies == { <<104, 105>>, <<195, 169>>, <<195, 40>> }

Severities == {"Error", "Warning"}
IssueContext == "/project/fetch"

Callers == 1..NumCallers

\* reqwest::Error as seen through is_connect(), is_timeout(), status(),
\* to_string().
RawError(c, t, s, txt) == [connect |-> c, timeout |-> t, status |-> s, text |-> txt]
RawErrors ==
    { RawError(c, t, s, txt) :
        c \in BOOLEAN, t \in BOOLEAN,
        s \in {None} \cup {Some(code) : code \in StatusCodes},
        txt \in Texts }

is_connect(error) == error.connect
is_timeout(error) == error.timeout
status_of(error) == error.status

Ok(v) == [tag |-> "Ok", value |-> v]
Err(e) == [tag |-> "Err", error |-> e]

\* ------------------------------------------------------- FetchErrorKind
Connect == <<"Connect">>
Timeout == <<"Timeout">>
Status(code) == <<"Status", code>>
Other == <<"Other">>
IsFetchErrorKind(kind) ==
    \/ kind \in {Connect, Timeout, Other}
    \/ Len(kind) = 2 /\ kind[1] = "Status" /\ kind[2] \in 0..65535

\* ------------------------------------------ FetchError::from_reqwest_error
from_reqwest_error_StatusFirst(error, url) ==
    [ url    |-> url,
      kind   |-> IF is_connect(error) THEN Connect
                 ELSE IF status_of(error) # None THEN Status(status_of(error)[1])
                 ELSE IF is_timeout(error) THEN Timeout
                 ELSE Other,
      detail |-> error.text ]

from_reqwest_error_NoStatus(error, url) ==
    [ url    |-> url,
      kind   |-> IF is_connect(error) THEN Connect
                 ELSE IF is_timeout(error) THEN Timeout
                 ELSE Other,
      detail |-> error.text ]

from_reqwest_error_UrlAsDetail(error, url) ==
    [ url    |-> url,
      kind   |-> IF is_connect(error) THEN Connect
                 ELSE IF is_timeout(error) THEN Timeout
                 ELSE IF status_of(error) # None THEN Status(status_of(error)[1])
                 ELSE Other,
      detail |-> url ]

from_reqwest_error(error, url) ==
    [ url    |-> url,
      kind   |-> IF is_connect(error) THEN Connect
                 ELSE IF is_timeout(error) THEN Timeout
                 ELSE IF status_of(error) # None THEN Status(status_of(error)[1])
                 ELSE Other,
      detail |-> error.text ]

\* ------------------------------------------------------ FetchError::to_issue
to_issue_ContextAsUrl(this, severity, issue_context) ==
    [ issue_context |-> issue_context,
      severity      |-> severity,
      url           |-> issue_context,
      kind          |-> this.kind,
      detail        |-> this.detail ]

to_issue(this, severity, issue_context) ==
    [ issue_context |-> issue_context,
      severity      |-> severity,
      url           |-> this.url,
      kind          |-> this.kind,
      detail        |-> this.detail ]

\* ------------------------------------------------- FetchIssue::description
Digits == <<"0", "1", "2", "3", "4", "5", "6", "7", "8", "9">>

\* Display of a u16 as used by format!("{}", status).
RECURSIVE FmtU16(_)
FmtU16(n) ==
    IF n < 10 THEN Digits[n + 1]
    ELSE FmtU16(n \div 10) \o Digits[(n % 10) + 1]

description_WithDetail(self) ==
    CASE self.kind = Connect ->
           "There was an issue establishing a connection while requesting "
             \o self.url \o "."
      [] self.kind[1] = "Status" ->
           "Received response with status " \o FmtU16(self.kind[2])
             \o " when requesting " \o self.url
      [] self.kind = Timeout ->
           "Connection timed out when requesting " \o self.url
      [] self.kind = Other ->
           "There was an issue requesting " \o self.url \o ": " \o self.detail

description(self) ==
    CASE self.kind = Connect ->
           "There was an issue establishing a connection while requesting "
             \o self.url \o "."
      [] self.kind[1] = "Status" ->
           "Received response with status " \o FmtU16(self.kind[2])
             \o " when requesting " \o self.url
      [] self.kind = Timeout ->
           "Connection timed out when requesting " \o self.url
      [] self.kind = Other ->
           "There was an issue requesting " \o self.url

title == "Error while requesting resource"
category == "fetch"

\* ------------------------------------------------ HttpResponseBody::to_string
IsCont(b) == b >= 128 /\ b <= 191

\* std::str::from_utf8: Ok(sequence of scalar values) or Err(Utf8Error).
RECURSIVE Utf8Scalars(_)
Utf8Scalars(bytes) ==
    IF bytes = <<>> THEN Ok(<<>>)
    ELSE
      LET b0 == bytes[1]
          n  == Len(bytes)
          width ==
            IF b0 < 128 THEN 1
            ELSE IF b0 >= 194 /\ b0 <= 223 THEN 2
            ELSE IF b0 >= 224 /\ b0 <= 239 THEN 3
            ELSE IF b0 >= 240 /\ b0 <= 244 THEN 4
            ELSE 0
          wellFormed ==
            /\ width > 0
            /\ n >= width
            /\ \A i \in 2..width : IsCont(bytes[i])
            /\ (b0 = 224) => bytes[2] >= 160
            /\ (b0 = 237) => bytes[2] <= 159
            /\ (b0 = 240) => bytes[2] >= 144
            /\ (b0 = 244) => bytes[2] <= 143
          scalar ==
            IF width = 1 THEN b0
            ELSE IF width = 2 THEN (b0 % 32) * 64 + (bytes[2] % 64)
            ELSE IF width = 3 THEN
              (b0 % 16) * 4096 + (bytes[2] % 64) * 64 + (bytes[3] % 64)
            ELSE
              (b0 % 8) * 262144 + (bytes[2] % 64) * 4096
                + (bytes[3] % 64) * 64 + (bytes[4] % 64)
      IN IF ~wellFormed THEN Err("Utf8Error")
         ELSE LET rest == Utf8Scalars(SubSeq(bytes, width + 1, n))
              IN IF rest.tag = "Err" THEN rest
                 ELSE Ok(<<scalar>> \o rest.value)

to_string(body) == Utf8Scalars(body)

\* ------------------------------------------------------------------ fetch
\* reqwest IntoUrl: whether client.get(url) yields a request or a builder error.
IntoUrlOk(url) == url \notin MalformedUrls

\* Lines 47-49: the headers the builder carries.
Headers_Never(user_agent) == <<>>

Headers(user_agent) ==
    IF user_agent # None THEN << <<"User-Agent", user_agent[1]>> >> ELSE <<>>

\* Lines 46-49: the RequestBuilder handed to send().
BuildRequest(url, user_agent) ==
    IF IntoUrlOk(url)
      THEN [built |-> TRUE, method |-> "GET", url |-> url,
            headers |-> Headers(user_agent)]
      ELSE [built |-> FALSE, method |-> "GET", url |-> url, headers |-> <<>>]

\* Line 51: builder.send() is invoked once per execution of the body.
Send_Retry(sent, request) == Append(Append(sent, request), request)

Send(sent, request) == Append(sent, request)

BuilderErrorText == "builder error: relative URL without a base"

\* What send().await can resolve to: a builder error for a request that was
\* never built, otherwise a response or a request error (connect / timeout /
\* anything else; such errors carry no status).
SendResults(request) ==
    IF ~request.built
      THEN { Err(RawError(FALSE, FALSE, None, BuilderErrorText)) }
      ELSE { Ok(s) : s \in StatusCodes }
           \cup { Err(RawError(c, t, None, txt)) :
                    c \in BOOLEAN, t \in BOOLEAN, txt \in Texts }

StatusErrorText(status) == "HTTP status error (" \o FmtU16(status) \o ")"

\* Response::error_for_status: client (4xx) and server (5xx) errors become Err.
error_for_status_ClientOnly(status) ==
    IF status >= 400 /\ status < 500
      THEN Err(RawError(FALSE, FALSE, Some(status), StatusErrorText(status)))
      ELSE Ok(status)

error_for_status(status) ==
    IF status >= 400 /\ status < 600
      THEN Err(RawError(FALSE, FALSE, Some(status), StatusErrorText(status)))
      ELSE Ok(status)

\* What response.bytes().await can resolve to.
BodyErrorText == "error decoding response body"

BytesResults ==
    { Ok(b) : b \in Bodies }
      \cup { Err(RawError(FALSE, t, None, BodyErrorText)) : t \in BOOLEAN }

\* FetchResult variants.
Success(status, body) == Ok([status |-> status, body |-> body])
Failure(error) == Err(error)

\* Lines 53-62: the Ok arm, after the body has been awaited.
fetch_ok_EagerDecode(status, bytes, url) ==
    IF bytes.tag = "Err" THEN Err(bytes.error)
    ELSE IF Utf8Scalars(bytes.value).tag = "Err"
      THEN Ok(Failure([url |-> url, kind |-> Other, detail |-> "Utf8Error"]))
    ELSE Ok(Success(status, bytes.value))

fetch_ok(status, bytes, url) ==
    IF bytes.tag = "Err"
      THEN Err(bytes.error)                         \* `?` on bytes().await
      ELSE Ok(Success(status, bytes.value))

\* Lines 63-65: the Err arm.
fetch_err(err, url) == Ok(Failure(from_reqwest_error(err, url)))

\* ------------------------------------------------------------------ state
VARIABLES
    cell,        \* per key: the memoized task of fetch(url, user_agent)
    sent,        \* per key: the requests handed to send()
    caller,      \* per caller: its position and what it has observed
    classified   \* results of from_reqwest_error applied to arbitrary errors

vars == <<cell, sent, caller, classified>>

EmptyCell ==
    [pc |-> "none", response |-> None, body |-> None, raw |-> None, out |-> None]
IdleCaller ==
    [pc |-> "idle", key |-> None, obs |-> None, issue |-> None,
     text |-> None, decoded |-> None]

Init ==
    /\ cell = [k \in Keys |-> EmptyCell]
    /\ sent = [k \in Keys |-> <<>>]
    /\ caller = [c \in Callers |-> IdleCaller]
    /\ classified = <<>>

\* Memoization layer: a task is computed only if its key has no cell yet.
NeedsCompute(c) == c.pc = "none"

\* A caller invokes fetch(url, user_agent) and starts awaiting the returned Vc.
Call(c, k) ==
    /\ caller[c].pc = "idle"
    /\ caller' = [caller EXCEPT ![c] = [@ EXCEPT !.pc = "waiting", !.key = Some(k)]]
    /\ cell' = IF NeedsCompute(cell[k])
                 THEN [cell EXCEPT ![k] = [@ EXCEPT !.pc = "scheduled"]]
                 ELSE cell
    /\ UNCHANGED <<sent, classified>>

\* fetch, lines 42-51: build the request and hand it to send().
FetchSend(k) ==
    /\ cell[k].pc = "scheduled"
    /\ sent' = [sent EXCEPT ![k] = Send(@, BuildRequest(k[1], k[2]))]
    /\ cell' = [cell EXCEPT ![k] = [@ EXCEPT !.pc = "sent"]]
    /\ UNCHANGED <<caller, classified>>

\* fetch, lines 51-54 and 63-65: send() resolves, error_for_status is applied,
\* and the Err arm classifies the error.
FetchResponse(k) ==
    /\ cell[k].pc = "sent"
    /\ \E r \in SendResults(sent[k][Len(sent[k])]) :
         LET response == IF r.tag = "Ok" THEN error_for_status(r.value) ELSE r
             got == IF r.tag = "Ok" THEN Some(r.value) ELSE None
         IN cell' = [cell EXCEPT ![k] =
                IF response.tag = "Ok"
                  THEN [@ EXCEPT !.pc = "body", !.response = got]
                  ELSE [@ EXCEPT !.pc = "done", !.response = got,
                                 !.raw = Some(response.error),
                                 !.out = Some(fetch_err(response.error, k[1]))]]
    /\ UNCHANGED <<sent, caller, classified>>

\* fetch, lines 54-61: the body is read and the outcome is stored.
FetchBody(k) ==
    /\ cell[k].pc = "body"
    /\ \E bytes \in BytesResults :
         cell' = [cell EXCEPT ![k] =
                    [@ EXCEPT !.pc = "done",
                              !.body = IF bytes.tag = "Ok" THEN Some(bytes.value) ELSE None,
                              !.raw = IF bytes.tag = "Err" THEN Some(bytes.error) ELSE None,
                              !.out = Some(fetch_ok(cell[k].response[1], bytes, k[1]))]]
    /\ UNCHANGED <<sent, caller, classified>>

\* The awaiting caller reads the finished cell.
Await(c) ==
    /\ caller[c].pc = "waiting"
    /\ cell[caller[c].key[1]].pc = "done"
    /\ caller' = [caller EXCEPT ![c] =
                    [@ EXCEPT !.pc = "done", !.obs = cell[caller[c].key[1]].out]]
    /\ UNCHANGED <<cell, sent, classified>>

IsFailure(obs) == obs # None /\ obs[1].tag = "Ok" /\ obs[1].value.tag = "Err"
IsSuccess(obs) == obs # None /\ obs[1].tag = "Ok" /\ obs[1].value.tag = "Ok"
IsRawErr(obs) == obs # None /\ obs[1].tag = "Err"

\* FetchError::to_issue on the observed failure.
ToIssue(c, severity) ==
    /\ caller[c].pc = "done"
    /\ IsFailure(caller[c].obs)
    /\ caller' = [caller EXCEPT ![c] =
                    [@ EXCEPT !.pc = "reported",
                              !.issue = Some(to_issue(caller[c].obs[1].value.error,
                                                      severity, IssueContext))]]
    /\ UNCHANGED <<cell, sent, classified>>

\* FetchIssue::description on the issue the caller holds.
Describe(c) ==
    /\ caller[c].pc = "reported"
    /\ caller' = [caller EXCEPT ![c] =
                    [@ EXCEPT !.pc = "described",
                              !.text = Some(description(caller[c].issue[1]))]]
    /\ UNCHANGED <<cell, sent, classified>>

\* HttpResponseBody::to_string on the observed body.
ToString_(c) ==
    /\ caller[c].pc = "done"
    /\ IsSuccess(caller[c].obs)
    /\ caller' = [caller EXCEPT ![c] =
                    [@ EXCEPT !.pc = "decoded",
                              !.decoded = Some(to_string(caller[c].obs[1].value.value.body))]]
    /\ UNCHANGED <<cell, sent, classified>>

Next ==
    \/ \E c \in Callers, k \in Keys : Call(c, k)
    \/ \E k \in Keys : FetchSend(k)
    \/ \E k \in Keys : FetchResponse(k)
    \/ \E k \in Keys : FetchBody(k)
    \/ \E c \in Callers : Await(c)
    \/ \E c \in Callers, s \in Severities : ToIssue(c, s)
    \/ \E c \in Callers : Describe(c)
    \/ \E c \in Callers : ToString_(c)

Spec == Init /\ [][Next]_vars

\* cell: pc is the task's position ("none", "scheduled", "sent", "body",
\* "done"); response is the status of the response send() resolved to; body
\* the bytes bytes() resolved to; raw the reqwest error that ended the task;
\* out the Result the task returned.

\* ------------------------------------------- classification in isolation
\* from_reqwest_error applied to every combination of error attributes.
Classify(error, url) ==
    /\ Len(classified) < MaxClassified
    /\ classified' = Append(classified,
                        [raw |-> error, url |-> url,
                         error |-> from_reqwest_error(error, url)])
    /\ UNCHANGED <<cell, sent, caller>>

ClassifyNext == \E error \in RawErrors, url \in Urls : Classify(error, url)

ClassifySpec == Init /\ [][ClassifyNext]_vars

\* =================================================================== claims
Finished(c) == caller[c].pc \notin {"idle", "waiting"}
KeyOf(c) == caller[c].key[1]
ValidKey == <<"http://a.test/x", None>>
ValidKeyUA == <<"http://a.test/x", Some("curl")>>

\* C1: callers of the same (url, user_agent) key cause at most one execution
\* of the fetch body -- at most one request handed to send() -- and every one
\* of them observes the one outcome stored for that key.
C1_SingleFlight ==
    /\ \A k \in Keys : Len(sent[k]) <= 1
    /\ \A c1, c2 \in Callers :
         (Finished(c1) /\ Finished(c2) /\ KeyOf(c1) = KeyOf(c2))
           => /\ caller[c1].obs = caller[c2].obs
              /\ caller[c1].obs = cell[KeyOf(c1)].out

C1_Witness ==
    \E c1, c2 \in Callers :
        /\ c1 # c2
        /\ Finished(c1) /\ Finished(c2)
        /\ KeyOf(c1) = ValidKey /\ KeyOf(c2) = ValidKey
        /\ Len(sent[ValidKey]) = 1
        /\ caller[c1].obs = caller[c2].obs

\* C2 (as claimed): whenever a transport error ends a fetch -- from send(),
\* from error_for_status or from reading the body -- the call returns Ok with
\* a Failure whose kind is one of the four kinds, never the raw error as Err.
C2_NoRawPropagation ==
    \A k \in Keys :
        (cell[k].pc = "done" /\ cell[k].raw # None)
          => /\ cell[k].out[1].tag = "Ok"
             /\ cell[k].out[1].value.tag = "Err"
             /\ IsFetchErrorKind(cell[k].out[1].value.error.kind)

C4_FirstMatchWins ==
    \A i \in 1..Len(classified) :
        LET raw == classified[i].raw
            kind == classified[i].error.kind
        IN /\ raw.connect => kind = <<"Connect">>
           /\ (~raw.connect /\ raw.timeout) => kind = <<"Timeout">>
           /\ (~raw.connect /\ ~raw.timeout /\ raw.status # None)
                => kind = <<"Status", raw.status[1]>>
           /\ (~raw.connect /\ ~raw.timeout /\ raw.status = None)
                => kind = <<"Other">>

C4_Witness ==
    \E i \in 1..Len(classified) :
        /\ ~classified[i].raw.connect
        /\ classified[i].raw.timeout
        /\ classified[i].raw.status = Some(404)
        /\ classified[i].error.kind = <<"Timeout">>

C6_DescriptionByKind ==
    \A c \in Callers :
        caller[c].text # None =>
          LET url == KeyOf(c)[1]
              kind == cell[KeyOf(c)].out[1].value.error.kind
          IN /\ kind = <<"Connect">> => caller[c].text[1] =
                  "There was an issue establishing a connection while requesting "
                    \o url \o "."
             /\ kind[1] = "Status" => caller[c].text[1] =
                  "Received response with status " \o ToString(kind[2])
                    \o " when requesting " \o url
             /\ kind = <<"Timeout">> => caller[c].text[1] =
                  "Connection timed out when requesting " \o url
             /\ kind = <<"Other">> => caller[c].text[1] =
                  "There was an issue requesting " \o url

C6_Witness ==
    \E c \in Callers :
        /\ caller[c].key = Some(ValidKeyUA)
        /\ cell[ValidKeyUA].response = Some(404)
        /\ caller[c].text =
             Some("Received response with status 404 when requesting http://a.test/x")

\* C7: a body that is not valid UTF-8 still yields Success with the bytes as
\* read; a decode error exists only at a caller that invoked to_string, it is
\* none of the four kinds, and the stored outcome stays the same Success.
C7_DecodeIsLazy ==
    /\ \A k \in Keys :
         cell[k].body # None
           => cell[k].out = Some(Ok(Ok([status |-> cell[k].response[1],
                                        body |-> cell[k].body[1]])))
    /\ \A c \in Callers :
         /\ caller[c].pc # "decoded" => caller[c].decoded = None
         /\ caller[c].decoded # None
              => /\ IsSuccess(cell[KeyOf(c)].out)
                 /\ cell[KeyOf(c)].out = caller[c].obs
                 /\ caller[c].decoded[1].tag = "Err"
                      => /\ caller[c].decoded[1].error = "Utf8Error"
                         /\ ~IsFetchErrorKind(<<caller[c].decoded[1].error>>)

C7_Witness ==
    \E c1, c2 \in Callers :
        /\ c1 # c2
        /\ caller[c1].key = Some(ValidKey) /\ caller[c2].key = Some(ValidKey)
        /\ cell[ValidKey].body = Some(<<195, 40>>)
        /\ IsSuccess(cell[ValidKey].out)
        /\ caller[c1].pc = "decoded" /\ caller[c1].decoded[1].tag = "Err"
        /\ caller[c2].pc = "done" /\ caller[c2].decoded = None

\* C8: each (url, user_agent) key has its own execution and its own request;
\* the request of a key carries exactly the header User-Agent: <user_agent>
\* when user_agent is present and no header when it is absent, and a caller
\* observes the outcome stored under its own key.
C8_IdentityInKey ==
    /\ \A k \in Keys :
         cell[k].pc \in {"sent", "body", "done"}
           => /\ Len(sent[k]) = 1
              /\ sent[k][1].url = k[1]
              /\ sent[k][1].built
                   => sent[k][1].headers =
                        (IF k[2] = None THEN <<>>
                         ELSE << <<"User-Agent", k[2][1]>> >>)
    /\ \A c \in Callers : Finished(c) => caller[c].obs = cell[KeyOf(c)].out

C8_Witness ==
    \E c1, c2 \in Callers :
        /\ Finished(c1) /\ Finished(c2)
        /\ KeyOf(c1) = ValidKey /\ KeyOf(c2) = ValidKeyUA
        /\ caller[c1].obs # caller[c2].obs
        /\ sent[ValidKey] = << [built |-> TRUE, method |-> "GET",
                                url |-> "http://a.test/x", headers |-> <<>>] >>
        /\ sent[ValidKeyUA] = << [built |-> TRUE, method |-> "GET",
                                  url |-> "http://a.test/x",
                                  headers |-> << <<"User-Agent", "curl">> >>] >>

\* C9: a url that does not parse ends in Ok(Failure) with kind Other and the
\* builder error's text as detail; the fetch call itself does not fail.
C9_MalformedUrlIsOther ==
    \A k \in Keys :
        (k[1] \in MalformedUrls /\ cell[k].pc \notin {"none", "scheduled", "sent"})
          => /\ cell[k].pc = "done"
             /\ cell[k].out = Some(Ok(Err([url |-> k[1], kind |-> <<"Other">>,
                                           detail |-> BuilderErrorText])))

C9_Witness ==
    \E k \in Keys :
        /\ k[1] \in MalformedUrls
        /\ cell[k].pc = "done"
        /\ cell[k].out[1].value.error.kind = <<"Other">>

\* C10: detail is the raw error's display text in the FetchError and in the
\* FetchIssue; errors that differ only in text get the same kind; and the
\* description depends on kind and url only.
C10_DetailCarriedUnchanged ==
    /\ \A k \in Keys :
         IsFailure(cell[k].out)
           => cell[k].out[1].value.error.detail = cell[k].raw[1].text
    /\ \A c \in Callers :
         caller[c].issue # None
           => caller[c].issue[1].detail = cell[KeyOf(c)].raw[1].text
    /\ \A k1, k2 \in Keys :
         (/\ IsFailure(cell[k1].out) /\ IsFailure(cell[k2].out)
          /\ [cell[k1].raw[1] EXCEPT !.text = ""] = [cell[k2].raw[1] EXCEPT !.text = ""])
           => cell[k1].out[1].value.error.kind = cell[k2].out[1].value.error.kind
    /\ \A c1, c2 \in Callers :
         (/\ caller[c1].text # None /\ caller[c2].text # None
          /\ caller[c1].issue[1].kind = caller[c2].issue[1].kind
          /\ caller[c1].issue[1].url = caller[c2].issue[1].url)
           => caller[c1].text = caller[c2].text

C10_Witness ==
    \E c1, c2 \in Callers :
        /\ caller[c1].text # None /\ caller[c2].text # None
        /\ caller[c1].issue[1].kind = <<"Other">>
        /\ caller[c2].issue[1].kind = <<"Other">>
        /\ caller[c1].issue[1].url = caller[c2].issue[1].url
        /\ caller[c1].issue[1].detail = "error sending request"
        /\ caller[c2].issue[1].detail = "operation timed out"
        /\ caller[c1].text = caller[c2].text

====
